---- MODULE Spec2Model ----
(***************************************************************************)
(* Model of the person resolution and response assembly pipeline of        *)
(* gemini-sheets-bot: app/people/find.py, app/sheets/client.py,            *)
(* app/llm/gemini.py and app/routes/chat.py.                               *)
(*                                                                         *)
(* Strings are sequences of one-character strings, so that the code's      *)
(* character operations (re.sub, startswith, lower, strip, SequenceMatcher)*)
(* are computed and not assumed.  Python's None is the value None below;   *)
(* Truthy is Python's truth test on an optional string.                    *)
(***************************************************************************)
EXTENDS Integers, Sequences, FiniteSets, TLC

VARIABLES
    arg,          \* inputs of the pure-function specifications
    ret,          \* results of the pure-function specifications
    now,          \* the clock the TTLCache reads (time.monotonic), in ms
    cache,        \* SheetsClient.cache: the entry under "people_data"
    pc,           \* position of the request being served by chat_endpoint
    req,          \* the ChatRequest being served
    loc,          \* locals of chat_endpoint for the request being served
    resp,         \* the response object (ChatResponse / ErrorResponse)
    hist          \* history of the cache's remote fetches (for the claims)

vars == <<arg, ret, now, cache, pc, req, loc, resp, hist>>

----------------------------------------------------------------------------
(* Strings *)

None == <<"None">>

Truthy(s) == s # None /\ s # <<>>

Digits == {"0", "1", "2", "3", "4", "5", "6", "7", "8", "9"}

IsDigit(c) == c \in Digits

IsSpace(c) == c = " "

StartsWith(s, p) == Len(s) >= Len(p) /\ SubSeq(s, 1, Len(p)) = p

\* str.lower() on the characters the model uses
LowerChar(c) ==
    CASE c = "A" -> "a"
      [] c = "B" -> "b"
      [] OTHER -> c

Lower(s) == [i \in 1..Len(s) |-> LowerChar(s[i])]

RECURSIVE LStrip(_)
LStrip(s) == IF s # <<>> /\ IsSpace(Head(s)) THEN LStrip(Tail(s)) ELSE s

RECURSIVE RStrip(_)
RStrip(s) ==
    IF s # <<>> /\ IsSpace(s[Len(s)]) THEN RStrip(SubSeq(s, 1, Len(s) - 1)) ELSE s

\* str.strip()
Strip(s) == RStrip(LStrip(s))

\* all sequences over alphabet A of length at most n
RECURSIVE SeqsUpTo(_, _)
SeqsUpTo(A, n) ==
    IF n = 0 THEN {<<>>}
    ELSE LET shorter == SeqsUpTo(A, n - 1)
         IN  shorter \cup {Append(s, c) : s \in {t \in shorter : Len(t) = n - 1}, c \in A}

----------------------------------------------------------------------------
(* PersonFinder._normalize_phone *)

\* re.sub(r'[^\d+]', '', phone): every digit and every '+' is kept
StripPhone(phone) == SelectSeq(phone, LAMBDA c : IsDigit(c) \/ c = "+")

\* mutant: the early return for an already '+'-prefixed number is missing
NormalizePhoneNoPlusCase(phone) ==
    IF ~Truthy(phone) THEN <<>>
    ELSE LET normalized == StripPhone(phone)
         IN  IF StartsWith(normalized, <<"9", "0">>) THEN <<"+">> \o normalized
             ELSE IF StartsWith(normalized, <<"0">>)
                  THEN <<"+", "9", "0">> \o Tail(normalized)
                  ELSE <<"+">> \o normalized

_normalize_phone(phone) ==
    IF ~Truthy(phone) THEN <<>>
    ELSE LET normalized == StripPhone(phone)
         IN  IF StartsWith(normalized, <<"+">>) THEN normalized
             ELSE IF StartsWith(normalized, <<"9", "0">>) THEN <<"+">> \o normalized
             ELSE IF StartsWith(normalized, <<"0">>)
                  THEN <<"+", "9", "0">> \o Tail(normalized)
                  ELSE <<"+">> \o normalized

----------------------------------------------------------------------------
(* difflib.SequenceMatcher(None, a, b).ratio(), as PersonFinder uses it.   *)
(* No junk function is given and the autojunk heuristic needs 200          *)
(* characters, so every character takes part in the matching.              *)

\* length of the common run of a from i and b from j, inside a[..ahi], b[..bhi]
RECURSIVE CommonRun(_, _, _, _, _, _)
CommonRun(a, b, i, j, ahi, bhi) ==
    IF i <= ahi /\ j <= bhi /\ a[i] = b[j]
    THEN 1 + CommonRun(a, b, i + 1, j + 1, ahi, bhi)
    ELSE 0

\* find_longest_match: the longest block; of those the earliest in a, then in b
find_longest_match(a, b, alo, ahi, blo, bhi) ==
    LET cands == {<<i, j>> : i \in alo..ahi, j \in blo..bhi}
        run(p) == CommonRun(a, b, p[1], p[2], ahi, bhi)
        best == CHOOSE p \in cands :
                   \A q \in cands :
                      \/ run(p) > run(q)
                      \/ run(p) = run(q) /\ p[1] < q[1]
                      \/ run(p) = run(q) /\ p[1] = q[1] /\ p[2] <= q[2]
    IN  [i |-> best[1], j |-> best[2], k |-> run(best)]

\* get_matching_blocks: total size of the blocks found left and right of the longest
RECURSIVE MatchingSize(_, _, _, _, _, _)
MatchingSize(a, b, alo, ahi, blo, bhi) ==
    IF alo > ahi \/ blo > bhi THEN 0
    ELSE LET m == find_longest_match(a, b, alo, ahi, blo, bhi)
         IN  IF m.k = 0 THEN 0
             ELSE m.k + MatchingSize(a, b, alo, m.i - 1, blo, m.j - 1)
                      + MatchingSize(a, b, m.i + m.k, ahi, m.j + m.k, bhi)

\* ratio() = 2.0 * matches / (len(a) + len(b)), 1.0 when both are empty;
\* kept as the fraction <<numerator, denominator>>
Ratio(a, b) ==
    IF Len(a) + Len(b) = 0 THEN <<1, 1>>
    ELSE <<2 * MatchingSize(a, b, 1, Len(a), 1, Len(b)), Len(a) + Len(b)>>

\* comparisons of fractions with positive denominators
RatioGT(r, s) == r[1] * s[2] > s[1] * r[2]

RatioGE(r, s) == r[1] * s[2] >= s[1] * r[2]

\* the default threshold 0.85
Threshold == <<85, 100>>

ZeroRatio == <<0, 1>>

----------------------------------------------------------------------------
(* PersonFinder *)

\* _fuzzy_match(text1, text2) with the default threshold
_fuzzy_match(text1, text2) ==
    IF ~Truthy(text1) \/ ~Truthy(text2) THEN FALSE
    ELSE RatioGE(Ratio(Strip(Lower(text1)), Strip(Lower(text2))), Threshold)

\* find_by_phone: index of the first record whose normalized phone equals the
\* normalized query, 0 for None
find_by_phone(people_data, phone) ==
    IF ~Truthy(phone) THEN 0
    ELSE LET normalized_phone == _normalize_phone(phone)
             hits == {i \in 1..Len(people_data) :
                         _normalize_phone(people_data[i].phone) = normalized_phone}
         IN  IF hits = {} THEN 0 ELSE CHOOSE i \in hits : \A j \in hits : i <= j

\* one step of the loop body of find_by_name for one of the two name cells:
\* best is [match |-> index, ratio |-> fraction]
NameStep(best, name, cell, i) ==
    IF Truthy(cell) /\ _fuzzy_match(name, cell)
    THEN LET ratio == Ratio(Lower(name), Lower(cell))
         IN  IF RatioGT(ratio, best.ratio) THEN [match |-> i, ratio |-> ratio] ELSE best
    ELSE best

\* the loop of find_by_name over people_data[1..n]
RECURSIVE NameLoop(_, _, _)
NameLoop(people_data, name, n) ==
    IF n = 0 THEN [match |-> 0, ratio |-> ZeroRatio]
    ELSE LET before == NameLoop(people_data, name, n - 1)
             afterFull == NameStep(before, name, people_data[n].full_name, n)
         IN  NameStep(afterFull, name, people_data[n].preferred_name, n)

\* find_by_name: index of the record returned, 0 for None
find_by_name(people_data, name) ==
    IF ~Truthy(name) THEN 0
    ELSE NameLoop(people_data, name, Len(people_data)).match

\* mutant: the name match is tried first
FindPersonNameFirst(people_data, user_phone, user_name) ==
    LET byName == IF Truthy(user_name) THEN find_by_name(people_data, user_name) ELSE 0
        byPhone == IF Truthy(user_phone) THEN find_by_phone(people_data, user_phone) ELSE 0
    IN  IF byName # 0 THEN byName ELSE byPhone

\* find_person: phone match first, then name match; 0 for None
find_person(people_data, user_phone, user_name) ==
    LET byPhone == IF Truthy(user_phone) THEN find_by_phone(people_data, user_phone) ELSE 0
        byName == IF Truthy(user_name) THEN find_by_name(people_data, user_name) ELSE 0
    IN  IF byPhone # 0 THEN byPhone ELSE byName

----------------------------------------------------------------------------
(* PersonFinder.extract_name_from_message and build_facts.                    *)
(* A message is its sequence of whitespace-separated words; every word of a   *)
(* model message is either all letters or has none, and a keyword occurs only *)
(* as a whole word.  The keywords written with a dotless i ("adim" forms) are *)
(* left out of the keyword sets; no model message uses them.                  *)

Letters == {"a", "b", "e", "n", "h", "i", "A", "B"}

IsLetters(w) == w # <<>> /\ \A k \in 1..Len(w) : w[k] \in Letters

W_ben == <<"b", "e", "n">>

W_olarak == <<"o", "l", "a", "r", "a", "k">>

IntroKeywords == {W_ben}

OutroKeywords == {W_ben, W_olarak}

\* " ".join(words)
RECURSIVE JoinWords(_)
JoinWords(ws) ==
    IF ws = <<>> THEN <<>>
    ELSE IF Len(ws) = 1 THEN ws[1]
    ELSE ws[1] \o <<" ">> \o JoinWords(Tail(ws))

MinOf(S) == CHOOSE x \in S : \A y \in S : x <= y

MaxOf(S) == CHOOSE x \in S : \A y \in S : x >= y

\* first pattern: keyword, then the longest run of letter words; None if no match
IntroCapture(message) ==
    LET starts == {i \in 1..(Len(message) - 1) :
                      Lower(message[i]) \in IntroKeywords /\ IsLetters(message[i + 1])}
    IN  IF starts = {} THEN None
        ELSE LET i == MinOf(starts)
                 ends == {e \in (i + 1)..Len(message) :
                             \A k \in (i + 1)..e : IsLetters(message[k])}
             IN  JoinWords(SubSeq(message, i + 1, MaxOf(ends)))

\* second pattern: the longest run of words of two or more letters that a
\* keyword follows, from the leftmost word that can start one; None if no match
OutroCapture(message) ==
    LET word(k) == IsLetters(message[k]) /\ Len(message[k]) >= 2
        endsFrom(s) == {e \in s..(Len(message) - 1) :
                           /\ \A k \in s..e : word(k)
                           /\ Lower(message[e + 1]) \in OutroKeywords}
        starts == {s \in 1..Len(message) : endsFrom(s) # {}}
    IN  IF starts = {} THEN None
        ELSE LET s == MinOf(starts)
             IN  JoinWords(SubSeq(message, s, MaxOf(endsFrom(s))))

extract_name_from_message(message) ==
    IF message = <<>> THEN None
    ELSE LET first == IntroCapture(message)
             second == OutroCapture(message)
         IN  IF first # None /\ Len(Strip(first)) > 2 THEN Strip(first)
             ELSE IF second # None /\ Len(Strip(second)) > 2 THEN Strip(second)
             ELSE None

\* build_facts: the cells of the record, "" for a missing one (get_people_data
\* builds every record with all headers, so none is missing)
build_facts(person) ==
    [person_id |-> person.person_id, full_name |-> person.full_name,
     preferred_name |-> person.preferred_name, phone |-> person.phone,
     locale |-> person.locale]

----------------------------------------------------------------------------
(* Settings (app/core/config.py) *)

cache_ttl_ms == 60000

default_locale == <<"tr-TR">>

----------------------------------------------------------------------------
(* SheetsClient.cache: a TTLCache holding at most the key "people_data".      *)
(* An entry is [present, data, expires]; TTLCache keeps an expired entry      *)
(* until the next store but answers as if it were gone.                       *)

\* TTLCache.__contains__: the key is linked and its expiry time is in the future
CacheContains(c, t) == c.present /\ t < c.expires

\* TTLCache.__setitem__ with the timer at t
CacheStore(data, t) == [present |-> TRUE, data |-> data, expires |-> t + cache_ttl_ms]

\* the number of header names get_people_data expects in a row
HeaderCount == 11

\* rows of the fetched range with fewer cells than headers are skipped
ParseRows(values) ==
    LET kept == SelectSeq(values, LAMBDA row : row.cells >= HeaderCount)
    IN  [i \in 1..Len(kept) |->
            [person_id |-> kept[i].person_id, full_name |-> kept[i].full_name,
             preferred_name |-> kept[i].preferred_name, phone |-> kept[i].phone,
             locale |-> kept[i].locale]]

\* get_people_data after a successful people_sheet.get(): what it returns and
\* the cache it leaves; an empty range returns [] before anything is stored
PeopleAfterFetch(values, c, t) ==
    IF values = <<>> THEN [people_data |-> <<>>, cache |-> c]
    ELSE [people_data |-> ParseRows(values), cache |-> CacheStore(ParseRows(values), t)]

----------------------------------------------------------------------------
(* Responses (app/models/response.py) and GeminiClient (app/llm/gemini.py).   *)
(* confidence is kept in tenths: 3 is 0.3, 10 is 1.0.                         *)

Reference(source, person_id) == [source |-> source, person_id |-> person_id]

ApologyText == "Su an teknik bir sorun olustu. Lutfen daha sonra tekrar dener misiniz?"

IdentifyWithPhoneText == "Numaranizla eslesen kayit bulamadim; ad-soyad ve okul/bolum bilgisini paylasir misiniz?"

IdentifyText == "Size yardimci olabilmem icin ad-soyad ve okul/bolum bilgisini paylasir misiniz?"

\* GeminiClient._fallback
_fallback(locale, person_id) ==
    [answer_text |-> ApologyText, intent |-> "genel", confidence |-> 0,
     references |-> IF Truthy(person_id) THEN <<Reference("People", person_id)>> ELSE <<>>,
     meta |-> [locale_used |-> locale, fallback |-> TRUE]]

\* data.get(key) is truthy
HasTruthy(data, key) == key \in DOMAIN data /\ data[key] # <<>>

\* mutant: the confidence range is not validated
ValidatesWithoutRange(data) ==
    {"answer_text", "intent", "confidence"} \subseteq DOMAIN data

\* ChatResponse.model_validate(data) succeeds: the required fields are there
\* and confidence is within [0, 1]
Validates(data) ==
    /\ {"answer_text", "intent", "confidence"} \subseteq DOMAIN data
    /\ data.confidence >= 0
    /\ data.confidence <= 10

\* meta.setdefault("locale_used", locale) on data.get("meta") or {}
MetaWithLocale(data, locale) ==
    IF HasTruthy(data, "meta")
    THEN IF "locale_used" \in DOMAIN data.meta THEN data.meta
         ELSE ("locale_used" :> locale) @@ data.meta
    ELSE ("locale_used" :> locale)

\* generate_response, given what the model call produced:
\*   [kind |-> "error"]      the call or reading resp.text raised
\*   [kind |-> "empty"]      no text in the response
\*   [kind |-> "malformed"]  text that json.loads rejects
\*   [kind |-> "not_object"] JSON that is not an object
\*   [kind |-> "json", data |-> the object]
generate_response(out, facts, locale) ==
    IF out.kind # "json" THEN _fallback(locale, facts.person_id)
    ELSE LET data == out.data
             references == IF HasTruthy(data, "references") THEN data.references
                           ELSE <<Reference("People", facts.person_id)>>
         IN  IF Validates(data)
             THEN [answer_text |-> data.answer_text, intent |-> data.intent,
                   confidence |-> data.confidence, references |-> references,
                   meta |-> MetaWithLocale(data, locale)]
             ELSE _fallback(locale, facts.person_id)

----------------------------------------------------------------------------
(* chat_endpoint (app/routes/chat.py) *)

\* mutant: the wording never mentions the phone number
CreateNotFoundPlainWording(user_phone, user_name) ==
    [answer_text |-> IdentifyText,
     intent |-> "genel", confidence |-> 3, references |-> <<>>,
     meta |-> [locale_used |-> default_locale, person_not_found |-> TRUE]]

create_not_found_response(user_phone, user_name) ==
    [answer_text |-> IF Truthy(user_phone) THEN IdentifyWithPhoneText ELSE IdentifyText,
     intent |-> "genel", confidence |-> 3, references |-> <<>>,
     meta |-> [locale_used |-> default_locale, person_not_found |-> TRUE]]

create_error_response ==
    [answer_text |-> ApologyText, intent |-> "genel", confidence |-> 0,
     references |-> <<>>]

\* mutant: the person's stored locale wins over the request's
DeriveLocalePersonFirst(user_locale, facts) ==
    IF Truthy(facts.locale) THEN facts.locale
    ELSE IF Truthy(user_locale) THEN user_locale
    ELSE default_locale

\* locale = user_locale or facts.get("locale") or settings.default_locale
DeriveLocale(user_locale, facts) ==
    IF Truthy(user_locale) THEN user_locale
    ELSE IF Truthy(facts.locale) THEN facts.locale
    ELSE default_locale

\* step 5: append the People reference unless the list already has it
EnsurePeopleReference(references, facts) ==
    IF Truthy(facts.person_id)
    THEN IF \E k \in 1..Len(references) :
               references[k].source = "People" /\ references[k].person_id = facts.person_id
         THEN references
         ELSE Append(references, Reference("People", facts.person_id))
    ELSE references

match_method(user_phone, user_name) ==
    IF Truthy(user_phone) THEN "phone" ELSE IF Truthy(user_name) THEN "name" ELSE "none"

\* mutant: the meta is rebuilt from the four keys alone
EnrichMetaReplacing(meta, locale, request_id, timing_ms, match) ==
    [locale_used |-> IF "locale_used" \in DOMAIN meta THEN meta.locale_used ELSE locale,
     request_id |-> request_id, timing_ms |-> timing_ms, match |-> match]

\* step 6: {**meta, "locale_used": ..., "request_id": ..., "timing_ms": ..., "match": ...}
EnrichMeta(meta, locale, request_id, timing_ms, match) ==
    [locale_used |-> IF "locale_used" \in DOMAIN meta THEN meta.locale_used ELSE locale,
     request_id |-> request_id, timing_ms |-> timing_ms, match |-> match] @@ meta

----------------------------------------------------------------------------
(* Data the specifications draw their inputs from *)

MaxPhoneLen == 3

MaxRows == 2

PhoneAlphabet == {"+", "0", "9", "5", "-"}

\* the numbers of the specification's examples
LocalNumber == <<"0", "5", "5", "5", "1", "2", "3", "4", "5", "6", "7">>

CountryNumber == <<"9", "0">> \o Tail(LocalNumber)

E164Number == <<"+">> \o CountryNumber

PhoneInputs ==
    SeqsUpTo(PhoneAlphabet, MaxPhoneLen) \cup {None, LocalNumber, CountryNumber, E164Number}

\* a row of the People sheet, as get_people_data builds it from the 11 headers;
\* the cells the pipeline only copies into the prompt (school, department, email,
\* profile_doc_id, profile_text, last_updated) are left out
Row(id, full, preferred, phone, locale) ==
    [person_id |-> id, full_name |-> full, preferred_name |-> preferred,
     phone |-> phone, locale |-> locale]

RowA == Row(<<"p1">>, <<"a", "b", "a", " ">>, <<>>, <<"0", "5", "5">>, <<"en">>)

RowB == Row(<<"p2">>, <<"a", "b", "a", "b">>, <<"B", "a", "b">>, <<"+", "9", "0", "5", "5">>, <<>>)

RowC == Row(<<>>, <<"A", "b", "a">>, <<>>, <<>>, <<"de">>)

RowD == Row(<<"p4">>, <<"b", "a", "b">>, <<"a", "b">>, <<"-">>, <<>>)

PersonRows == {RowA, RowB, RowC, RowD}

RECURSIVE TablesUpTo(_)
TablesUpTo(n) ==
    IF n = 0 THEN {<<>>}
    ELSE LET shorter == TablesUpTo(n - 1)
         IN  shorter \cup {Append(t, r) : t \in {u \in shorter : Len(u) = n - 1},
                                           r \in PersonRows}

QueryPhones ==
    {None, <<>>, <<"0", "5", "5">>, <<"9", "0", "5", "5">>, <<"+", "9", "0", "5", "5">>,
     <<" ">>, <<"5">>}

QueryNames ==
    {None, <<>>, <<"a", "b", "a">>, <<"a", "b", "a", " ">>, <<"A", "B", "A">>,
     <<"b", "a", "b">>, <<"b", "b">>}

----------------------------------------------------------------------------
(* Idle values of the variables a specification does not use *)

NoArg == [op |-> "none"]

NoRet == [stage |-> 0]

NoEntry == [present |-> FALSE]

NoReq == [message |-> <<>>]

NoLoc == [request_id |-> <<>>]

NoResp == [kind |-> "none"]

NoHist ==
    [fetches |-> 0, finds |-> 0, gens |-> 0, last_ok |-> -1, last_data |-> <<>>,
     prev_failed |-> FALSE]

PipelineIdle ==
    /\ now = 0
    /\ cache = NoEntry
    /\ pc = "idle"
    /\ req = NoReq
    /\ loc = NoLoc
    /\ resp = NoResp
    /\ hist = NoHist

PipelineUnchanged == UNCHANGED <<now, cache, pc, req, loc, resp, hist>>

----------------------------------------------------------------------------
(* SpecPhone: _normalize_phone applied once and twice to every input *)

InitPhone ==
    /\ arg \in [op : {"phone"}, phone : PhoneInputs]
    /\ ret = NoRet
    /\ PipelineIdle

NormalizeOnce ==
    /\ arg.op = "phone"
    /\ ret.stage = 0
    /\ ret' = [stage |-> 1, once |-> _normalize_phone(arg.phone)]
    /\ UNCHANGED arg
    /\ PipelineUnchanged

NormalizeTwice ==
    /\ arg.op = "phone"
    /\ ret.stage = 1
    /\ ret' = [stage |-> 2, once |-> ret.once, twice |-> _normalize_phone(ret.once)]
    /\ UNCHANGED arg
    /\ PipelineUnchanged

NextPhone == NormalizeOnce \/ NormalizeTwice

SpecPhone == InitPhone /\ [][NextPhone]_vars

----------------------------------------------------------------------------
(* SpecFinder: find_by_phone, find_by_name and find_person applied to every   *)
(* query and table                                                            *)

InitFinder ==
    /\ arg \in [op : {"find"}, phone : QueryPhones, name : QueryNames,
                people_data : TablesUpTo(MaxRows)]
    /\ ret = [stage |-> 0, called |-> {}]
    /\ PipelineIdle

CallFindByPhone ==
    /\ arg.op = "find"
    /\ "find_by_phone" \notin ret.called
    /\ ret' = [ret EXCEPT !.called = @ \cup {"find_by_phone"}] @@
              [by_phone |-> find_by_phone(arg.people_data, arg.phone)]
    /\ UNCHANGED arg
    /\ PipelineUnchanged

CallFindByName ==
    /\ arg.op = "find"
    /\ "find_by_name" \notin ret.called
    /\ ret' = [ret EXCEPT !.called = @ \cup {"find_by_name"}] @@
              [by_name |-> find_by_name(arg.people_data, arg.name)]
    /\ UNCHANGED arg
    /\ PipelineUnchanged

CallFindPerson ==
    /\ arg.op = "find"
    /\ "find_person" \notin ret.called
    /\ ret' = [ret EXCEPT !.called = @ \cup {"find_person"}] @@
              [person |-> find_person(arg.people_data, arg.phone, arg.name)]
    /\ UNCHANGED arg
    /\ PipelineUnchanged

NextFinder == CallFindByPhone \/ CallFindByName \/ CallFindPerson

SpecFinder == InitFinder /\ [][NextFinder]_vars

----------------------------------------------------------------------------
(* Spec: the chat pipeline.  chat_endpoint is a coroutine that never awaits,  *)
(* so the event loop serves one request at a time, from its first statement   *)
(* to its return.  Time passes while a request waits for the sheet or for the *)
(* model, between the cache's membership test and its read, and between       *)
(* requests.                                                                  *)

TicksPerTtl == 2

MaxTicks == 4

MaxRefs == 2

TickMs == cache_ttl_ms \div TicksPerTtl

\* a fetched row: its cells by header, and how many cells the sheet returned
Raw(row, n) == row @@ [cells |-> n]

Sheets ==
    { <<>>,
      <<Raw(RowB, 5)>>,
      <<Raw(RowA, 11), Raw(RowD, 5), Raw(RowC, 12)>>,
      <<Raw(RowB, 11), Raw(RowD, 11)>> }

W_hi == <<"h", "i">>

\* request.user absent is the same as a user with no field set: chat_endpoint
\* reads None for each of them
Requests ==
    [message : {<<W_hi>>, <<W_ben, <<"b", "a", "b">>>>},
     phone : {None, <<"0", "5", "5">>, <<"5">>},
     name : {None, <<"a", "b", "a">>},
     locale : {None, <<"fr">>}]

RequestIds == {<<"1f0e3dad">>}

GenRefs ==
    {Reference("People", <<"p1">>), Reference("Docs", <<"p1">>), Reference("People", <<"p2">>)}

GenMetas == {[extra |-> <<"x">>], [locale_used |-> <<"xx">>, extra |-> <<"x">>]}

GenAnswer == [answer_text |-> "answer", intent |-> "bilgi", confidence |-> 7]

WithRefs(d) == {d} \cup {d @@ [references |-> r] : r \in SeqsUpTo(GenRefs, MaxRefs)}

WithMeta(d) == {d} \cup {d @@ [meta |-> m] : m \in GenMetas}

\* what the model call can produce: failures, objects that do not validate,
\* and valid answers over every reference list and meta
GenOutputs ==
    {[kind |-> "error"], [kind |-> "empty"], [kind |-> "malformed"], [kind |-> "not_object"]}
    \cup {[kind |-> "json", data |-> [intent |-> "bilgi", confidence |-> 7]],
          [kind |-> "json", data |-> [GenAnswer EXCEPT !.confidence = 12]
                                     @@ [references |-> <<Reference("Docs", <<"p1">>)>>]]}
    \cup {[kind |-> "json", data |-> d] : d \in UNION {WithMeta(e) : e \in WithRefs(GenAnswer)}}

Init ==
    /\ arg = NoArg
    /\ ret = NoRet
    /\ PipelineIdle

\* the handler is entered: request_id, start_time and t0 are taken
Start ==
    /\ pc = "idle"
    /\ \E r \in Requests, id \in RequestIds :
          /\ req' = r
          /\ loc' = [request_id |-> id, start_time |-> now, t0 |-> now]
    /\ hist' = [hist EXCEPT !.fetches = 0, !.finds = 0, !.gens = 0]
    /\ pc' = "check"
    /\ resp' = NoResp
    /\ UNCHANGED <<arg, ret, now, cache>>

\* get_people_data: if cache_key in self.cache
CacheCheck ==
    /\ pc = "check"
    /\ pc' = IF CacheContains(cache, now) THEN "read" ELSE "fetch"
    /\ UNCHANGED <<arg, ret, now, cache, req, loc, resp, hist>>

\* mutant: the error response carries the text of the exception
RaiseToHandlerWithDetail ==
    /\ resp' = [kind |-> "error", status |-> 500,
                body |-> [create_error_response EXCEPT !.answer_text = "KeyError"]]
    /\ pc' = "done"

\* the pipeline's except clause: the fixed error response with status 500
RaiseToHandler ==
    /\ resp' = [kind |-> "error", status |-> 500, body |-> create_error_response]
    /\ pc' = "done"

\* get_people_data: return self.cache[cache_key]; TTLCache raises KeyError
\* for an entry that expired since the membership test
CacheRead ==
    /\ pc = "read"
    /\ IF CacheContains(cache, now)
       THEN /\ loc' = loc @@ [people_data |-> cache.data, t_sheets |-> now - loc.t0]
            /\ pc' = "find"
            /\ resp' = resp
       ELSE /\ RaiseToHandler
            /\ loc' = loc
    /\ hist' = [hist EXCEPT !.prev_failed = FALSE]
    /\ UNCHANGED <<arg, ret, now, cache, req>>

\* get_people_data: the sheet is read, parsed and cached
FetchOk ==
    /\ pc = "fetch"
    /\ \E values \in Sheets :
          LET got == PeopleAfterFetch(values, cache, now)
          IN  /\ cache' = got.cache
              /\ loc' = loc @@ [people_data |-> got.people_data, t_sheets |-> now - loc.t0]
              /\ hist' = [hist EXCEPT !.fetches = @ + 1, !.last_ok = now,
                                      !.last_data = got.people_data,
                                      !.prev_failed = FALSE]
    /\ pc' = "find"
    /\ UNCHANGED <<arg, ret, now, req, resp>>

\* mutant: a failed fetch is cached as an empty table
FetchFailCachingEmpty ==
    /\ pc = "fetch"
    /\ hist' = [hist EXCEPT !.fetches = @ + 1, !.prev_failed = TRUE]
    /\ RaiseToHandler
    /\ cache' = CacheStore(<<>>, now)
    /\ UNCHANGED <<arg, ret, now, req, loc>>

\* get_people_data: opening or reading the sheet raises; the error is logged
\* and raised again, and chat_endpoint's except clause answers
FetchFail ==
    /\ pc = "fetch"
    /\ hist' = [hist EXCEPT !.fetches = @ + 1, !.prev_failed = TRUE]
    /\ RaiseToHandler
    /\ UNCHANGED <<arg, ret, now, cache, req, loc>>

\* steps 2 and 3: find the person, then facts and locale
Resolve ==
    /\ pc = "find"
    /\ LET user_phone == req.phone
           user_locale == req.locale
           user_name == IF Truthy(req.name) THEN req.name
                        ELSE extract_name_from_message(req.message)
           person == find_person(loc.people_data, user_phone, user_name)
       IN  /\ IF person = 0
              THEN /\ resp' = [kind |-> "chat", status |-> 200,
                               body |-> create_not_found_response(user_phone, user_name)]
                   /\ pc' = "done"
                   /\ loc' = loc @@ [user_phone |-> user_phone, user_name |-> user_name,
                                     person |-> 0]
              ELSE LET facts == build_facts(loc.people_data[person])
                   IN  /\ loc' = loc @@ [user_phone |-> user_phone, user_name |-> user_name,
                                         person |-> person, facts |-> facts,
                                         locale |-> DeriveLocale(user_locale, facts),
                                         t1 |-> now]
                       /\ pc' = "generate"
                       /\ resp' = resp
    /\ hist' = [hist EXCEPT !.finds = @ + 1]
    /\ UNCHANGED <<arg, ret, now, cache, req>>

\* step 4: generate_response returns (it never raises)
Generate ==
    /\ pc = "generate"
    /\ \E out \in GenOutputs :
          loc' = loc @@ [raw |-> out, prompt_locale |-> loc.locale,
                         response |-> generate_response(out, loc.facts, loc.locale),
                         t_llm |-> now - loc.t1]
    /\ hist' = [hist EXCEPT !.gens = @ + 1]
    /\ pc' = "reconcile"
    /\ UNCHANGED <<arg, ret, now, cache, req, resp>>

\* steps 5 and 6: the People reference and the meta, then return
Reconcile ==
    /\ pc = "reconcile"
    /\ resp' = [kind |-> "chat", status |-> 200,
                body |-> [loc.response EXCEPT
                    !.references = EnsurePeopleReference(@, loc.facts),
                    !.meta = EnrichMeta(@, loc.locale, loc.request_id,
                                        [sheets |-> loc.t_sheets, llm |-> loc.t_llm,
                                         total |-> now - loc.start_time],
                                        match_method(loc.user_phone, loc.user_name))]]
    /\ pc' = "done"
    /\ UNCHANGED <<arg, ret, now, cache, req, loc, hist>>

\* the response is sent; the handler's locals are gone
Respond ==
    /\ pc = "done"
    /\ pc' = "idle"
    /\ req' = NoReq
    /\ loc' = NoLoc
    /\ resp' = NoResp
    /\ UNCHANGED <<arg, ret, now, cache, hist>>

\* time passes where the program waits
Tick ==
    /\ pc \in {"idle", "read", "fetch", "generate"}
    /\ now < MaxTicks * TickMs
    /\ now' = now + TickMs
    /\ UNCHANGED <<arg, ret, cache, pc, req, loc, resp, hist>>

Next ==
    \/ Start
    \/ CacheCheck
    \/ CacheRead
    \/ FetchOk
    \/ FetchFail
    \/ Resolve
    \/ Generate
    \/ Reconcile
    \/ Respond
    \/ Tick

Spec == Init /\ [][Next]_vars

\* the handler is straight-line code between its two remote calls, and both
\* the table fetch and the generation call return or fail
Fairness ==
    /\ WF_vars(CacheCheck)
    /\ WF_vars(CacheRead)
    /\ WF_vars(FetchOk \/ FetchFail)
    /\ WF_vars(Resolve)
    /\ WF_vars(Generate)
    /\ WF_vars(Reconcile)

\* the requests that give no name, in the user data or in the message: they
\* are resolved by phone or not at all
LiveRequests == {r \in Requests : r.name = None /\ r.message = <<W_hi>>}

LiveScope == req \in LiveRequests \cup {NoReq}

NextLive == Next /\ LiveScope'

SpecLive == Init /\ [][NextLive]_vars /\ Fairness

\* the pipeline when every remote fetch succeeds
NextFetchesSucceed ==
    \/ Start
    \/ CacheCheck
    \/ CacheRead
    \/ FetchOk
    \/ Resolve
    \/ Generate
    \/ Reconcile
    \/ Respond
    \/ Tick

SpecFetchesSucceed == Init /\ [][NextFetchesSucceed]_vars

----------------------------------------------------------------------------
(* Properties *)

\* the request being served resolved a person
Resolved == "person" \in DOMAIN loc /\ loc.person # 0

\* the request being served found no person
NotFound == "person" \in DOMAIN loc /\ loc.person = 0

\* the record the request resolved
ResolvedRecord == loc.people_data[loc.person]

HasPeopleReference(references, person_id) ==
    \E k \in 1..Len(references) :
        references[k].source = "People" /\ references[k].person_id = person_id

\* C1: whenever a person was resolved, the response returned has a reference
\* with source "People" and the resolved record's person_id, whatever the
\* generation step produced and also when that person_id is the empty string.
C1_PeopleReferenceAlways ==
    (pc = "done" /\ Resolved) =>
        /\ resp.kind = "chat"
        /\ HasPeopleReference(resp.body.references, ResolvedRecord.person_id)

\* C2: with every fetch succeeding, a call with no successful fetch before it
\* goes to the remote source; a call made less than ttl after the last
\* successful fetch does not, and what it returns from the cache is the
\* sequence that fetch produced; a call made ttl or more after it fetches
\* again; and no call fetches more than once.  This for every table content,
\* the table with no rows included.
C2_CacheFetches ==
    [][ /\ (pc = "check" /\ hist.last_ok = -1) => pc' = "fetch"
        /\ (pc = "check" /\ hist.last_ok >= 0 /\ now - hist.last_ok < cache_ttl_ms)
               => pc' = "read"
        /\ (pc = "check" /\ hist.last_ok >= 0 /\ now - hist.last_ok >= cache_ttl_ms)
               => pc' = "fetch"
        /\ (pc = "read" /\ pc' = "find") =>
               (loc'.people_data = hist.last_data /\ hist'.fetches = 0)
        /\ (pc = "fetch" /\ pc' = "find") => hist'.fetches = 1
      ]_vars

\* the records whose normalized phone equals the normalized query phone
PhoneHits(people_data, phone) ==
    {i \in 1..Len(people_data) :
        _normalize_phone(people_data[i].phone) = _normalize_phone(phone)}

\* C3: find_person returns the first record in table order whose normalized
\* phone equals the normalized phone supplied, whatever the name; the name
\* match decides only when no phone is supplied or no record's phone matches.
C3_PhonePriority ==
    ("find_person" \in ret.called) =>
        LET hits == PhoneHits(arg.people_data, arg.phone)
        IN  IF Truthy(arg.phone) /\ hits # {}
            THEN ret.person = MinOf(hits)
            ELSE ret.person = IF Truthy(arg.name)
                              THEN find_by_name(arg.people_data, arg.name)
                              ELSE 0

\* a phone that matches the first record and a name that matches another one
C3_Witness ==
    /\ "find_person" \in ret.called
    /\ Truthy(arg.phone)
    /\ PhoneHits(arg.people_data, arg.phone) # {}
    /\ ret.person = 1
    /\ find_by_name(arg.people_data, arg.name) = 2

\* the score of the claim: the ratio of the case-folded and trimmed strings,
\* nothing for an empty cell
ClaimedCellScore(name, cell) ==
    IF Truthy(cell) THEN Ratio(Strip(Lower(name)), Strip(Lower(cell))) ELSE ZeroRatio

ClaimedScore(name, person) ==
    LET f == ClaimedCellScore(name, person.full_name)
        p == ClaimedCellScore(name, person.preferred_name)
    IN  IF RatioGE(f, p) THEN f ELSE p

\* the first record in table order whose score is the maximum, if that
\* maximum reaches the threshold
ClaimedFindByName(people_data, name) ==
    LET n == Len(people_data)
        top == {i \in 1..n :
                   \A j \in 1..n : RatioGE(ClaimedScore(name, people_data[i]),
                                           ClaimedScore(name, people_data[j]))}
    IN  IF ~Truthy(name) \/ n = 0 THEN 0
        ELSE IF RatioGE(ClaimedScore(name, people_data[MinOf(top)]), Threshold)
             THEN MinOf(top)
             ELSE 0

\* C4: find_by_name returns none when the best score over all records is
\* below 0.85 and otherwise the first record in table order with the best
\* score, the score being the better of the two ratios on case-folded and
\* trimmed strings: the same score that is compared with the threshold.
C4_NameArgmax ==
    ("find_by_name" \in ret.called) =>
        ret.by_name = ClaimedFindByName(arg.people_data, arg.name)

\* the generation step failed: it raised, gave no usable text, gave text that
\* is no JSON object, or gave an object that does not validate
GenerationFailed(out) ==
    \/ out.kind \in {"error", "empty", "malformed", "not_object"}
    \/ /\ out.kind = "json"
       /\ \/ "answer_text" \notin DOMAIN out.data
          \/ "intent" \notin DOMAIN out.data
          \/ "confidence" \notin DOMAIN out.data
          \/ out.data.confidence < 0
          \/ out.data.confidence > 10

\* C5: when a person was resolved and the generation step failed, the request
\* ends with the successful outcome carrying the fallback answer: the apology
\* text, confidence 0.0, meta.fallback true after the enrichment, and as
\* references exactly the one reference to the resolved person when the
\* record has a person_id (none when it has not).
C5_FallbackAnswer ==
    (pc = "done" /\ Resolved /\ "raw" \in DOMAIN loc /\ GenerationFailed(loc.raw)) =>
        /\ resp.kind = "chat"
        /\ resp.status = 200
        /\ resp.body.answer_text = ApologyText
        /\ resp.body.confidence = 0
        /\ resp.body.meta.fallback = TRUE
        /\ resp.body.references =
               IF Truthy(ResolvedRecord.person_id)
               THEN <<Reference("People", ResolvedRecord.person_id)>>
               ELSE <<>>

\* an object with a confidence above 1.0 came back for a person with an id
C5_Witness ==
    /\ pc = "done"
    /\ Resolved
    /\ Truthy(ResolvedRecord.person_id)
    /\ loc.raw.kind = "json"
    /\ loc.raw.data.confidence > 10

\* C6: a request that finds no person never invokes the generation step and
\* ends with the identify-yourself response: confidence 0.3, no references,
\* the wording with the phone number exactly when a phone was supplied.  The
\* generation step is invoked at most once per request and only for a
\* request that found a person.
C6_NotFoundShortCircuit ==
    /\ NotFound =>
          /\ pc = "done"
          /\ hist.gens = 0
          /\ resp.kind = "chat"
          /\ resp.body.confidence = 3
          /\ resp.body.references = <<>>
          /\ resp.body.answer_text =
                 IF Truthy(req.phone) THEN IdentifyWithPhoneText ELSE IdentifyText
    /\ hist.gens <= 1
    /\ (hist.gens = 1 /\ pc # "idle") => Resolved

\* a request with a phone that matches no record and no usable name
C6_Witness ==
    /\ NotFound
    /\ Truthy(req.phone)
    /\ pc = "done"
    /\ Len(loc.people_data) > 0

\* C7: a failed fetch leaves the cache as it was, makes the request end with
\* the fixed error response after that single fetch attempt, with no data
\* returned, no resolution and no generation; and the next call of
\* get_people_data goes to the remote source again.
C7_FetchFailure ==
    [][ /\ (pc = "fetch" /\ pc' = "done") =>
               /\ cache' = cache
               /\ resp' = [kind |-> "error", status |-> 500, body |-> create_error_response]
               /\ "people_data" \notin DOMAIN loc'
               /\ hist'.fetches = 1
               /\ hist'.finds = 0
               /\ hist'.gens = 0
        /\ (pc = "done" /\ hist.prev_failed) => (pc' = "idle" /\ cache' = cache)
        /\ (pc = "check" /\ hist.prev_failed) => pc' = "fetch"
      ]_vars

\* a fetch failed while the cache still held the expired table
C7_Witness ==
    /\ pc = "done"
    /\ hist.prev_failed
    /\ cache.present

\* C8: _normalize_phone applied to its own result gives that result.
C8_Idempotent ==
    (ret.stage = 2) => ret.twice = ret.once

\* a number with a trunk 0 and a '+' inside, normalized twice
C8_Witness ==
    /\ ret.stage = 2
    /\ arg.phone = <<"0", "+", "5">>

\* the stripping of the claim: digits, and a '+' only in front of them all
ClaimedStripPhone(phone) ==
    LET keep(k) == \/ IsDigit(phone[k])
                   \/ /\ phone[k] = "+"
                      /\ \A j \in 1..(k - 1) : ~IsDigit(phone[j]) /\ phone[j] # "+"
        kept == {k \in 1..Len(phone) : keep(k)}
        RECURSIVE pick(_)
        pick(k) == IF k > Len(phone) THEN <<>>
                   ELSE IF k \in kept THEN <<phone[k]>> \o pick(k + 1)
                   ELSE pick(k + 1)
    IN  pick(1)

ClaimedNormalizePhone(phone) ==
    IF ~Truthy(phone) THEN <<>>
    ELSE LET stripped == ClaimedStripPhone(phone)
         IN  IF StartsWith(stripped, <<"+">>) THEN stripped
             ELSE IF StartsWith(stripped, <<"9", "0">>) THEN <<"+">> \o stripped
             ELSE IF StartsWith(stripped, <<"0">>) THEN <<"+", "9", "0">> \o Tail(stripped)
             ELSE <<"+">> \o stripped

\* empty, or one '+' followed by digits only
PlusThenDigits(s) ==
    s = <<>> \/ (s[1] = "+" /\ \A k \in 2..Len(s) : IsDigit(s[k]))

\* C9: _normalize_phone keeps only the digits and a leading '+', so that its
\* result is empty or one '+' followed by digits only, and applies the four
\* rules in order to what it kept; the three example numbers all give
\* "+905551234567".
C9_StripAndRules ==
    (ret.stage >= 1) =>
        /\ PlusThenDigits(ret.once)
        /\ ret.once = ClaimedNormalizePhone(arg.phone)
        /\ (arg.phone \in {LocalNumber, CountryNumber, E164Number} => ret.once = E164Number)

\* the locale of the priority rule: request, then stored, then default
PriorityLocale ==
    IF Truthy(req.locale) THEN req.locale
    ELSE IF Truthy(ResolvedRecord.locale) THEN ResolvedRecord.locale
    ELSE default_locale

\* generation set locale_used itself
GenerationSetLocale(out) ==
    /\ out.kind = "json"
    /\ "meta" \in DOMAIN out.data
    /\ "locale_used" \in DOMAIN out.data.meta

\* C10: the locale passed to the generation step is the request's locale if
\* given, else the resolved person's stored locale if not empty, else the
\* default; and unless generation set locale_used itself, meta.locale_used of
\* the response is that locale, the fallback answer included.
C10_LocalePriority ==
    /\ ("prompt_locale" \in DOMAIN loc) => loc.prompt_locale = PriorityLocale
    /\ (pc = "done" /\ Resolved /\ ~GenerationSetLocale(loc.raw)) =>
           resp.body.meta.locale_used = PriorityLocale

\* no request locale, a person without a stored locale, and a fallback answer
C10_Witness ==
    /\ pc = "done"
    /\ Resolved
    /\ ~Truthy(req.locale)
    /\ ~Truthy(ResolvedRecord.locale)
    /\ loc.raw.kind = "error"
    /\ resp.body.meta.locale_used = default_locale

\* no two references of the list have the same source and person_id
NoDuplicateReference(references) ==
    \A i, j \in 1..Len(references) : references[i] = references[j] => i = j

\* C11: when generation succeeded, the references of the response returned
\* hold no (source, person_id) pair twice, whatever reference list the
\* generation step returned, a list that repeats a pair included.
C11_NoDuplicateReferences ==
    (pc = "done" /\ Resolved /\ ~GenerationFailed(loc.raw)) =>
        NoDuplicateReference(resp.body.references)

\* the keys the enrichment writes
EnrichedKeys == {"locale_used", "request_id", "match", "timing_ms"}

\* the generation step returned a valid answer whose meta holds key k
GenerationMetaHas(out, k) ==
    /\ ~GenerationFailed(out)
    /\ "meta" \in DOMAIN out.data
    /\ k \in DOMAIN out.data.meta

\* C12: the enrichment only adds: every key of the meta generation returned,
\* other than locale_used, request_id, match and timing_ms, keeps its value in
\* the response; locale_used keeps the value generation set and is the derived
\* locale otherwise; request_id, match and timing_ms (sheets, llm, total) are
\* in the meta of every reconciled response, the fallback answer included.
C12_MetaAdditive ==
    (pc = "done" /\ Resolved) =>
        LET before == loc.response.meta
            after == resp.body.meta
        IN  /\ \A k \in DOMAIN before \ EnrichedKeys :
                   k \in DOMAIN after /\ after[k] = before[k]
            /\ \A k \in {"extra", "fallback"} :
                   GenerationMetaHas(loc.raw, k) =>
                       (k \in DOMAIN after /\ after[k] = loc.raw.data.meta[k])
            /\ after.locale_used =
                   IF GenerationMetaHas(loc.raw, "locale_used")
                   THEN loc.raw.data.meta.locale_used
                   ELSE PriorityLocale
            /\ EnrichedKeys \subseteq DOMAIN after
            /\ after.request_id = loc.request_id
            /\ after.match \in {"phone", "name", "none"}
            /\ DOMAIN after.timing_ms = {"sheets", "llm", "total"}
            /\ DOMAIN after = DOMAIN before \cup EnrichedKeys

\* a generated meta with its own locale_used and another key came through
C12_Witness ==
    /\ pc = "done"
    /\ Resolved
    /\ GenerationMetaHas(loc.raw, "extra")
    /\ GenerationMetaHas(loc.raw, "locale_used")
    /\ resp.body.meta.extra = <<"x">>
    /\ resp.body.meta.locale_used = <<"xx">>
    /\ resp.body.meta.locale_used # PriorityLocale

\* the tables a single successful fetch produces
CompleteTables == {ParseRows(values) : values \in Sheets}

\* C13: whenever time passes during get_people_data, the expiry of the entry
\* between the membership test and the read included, a call whose remote
\* fetch did not fail does not raise and returns the complete table of one
\* successful fetch, and the cache holds nothing but such a table.
C13_CallNeverRaises ==
    /\ (pc = "done" /\ resp.kind = "error") => hist.prev_failed
    /\ "people_data" \in DOMAIN loc => loc.people_data \in CompleteTables
    /\ cache.present => cache.data \in CompleteTables

\* the three terminal outcomes of a request
OutcomeNotFound ==
    /\ resp.kind = "chat"
    /\ NotFound
    /\ resp.body = create_not_found_response(loc.user_phone, loc.user_name)

OutcomeReconciled ==
    /\ resp.kind = "chat"
    /\ Resolved
    /\ "response" \in DOMAIN loc

OutcomeError ==
    /\ resp.kind = "error"
    /\ resp.status = 500
    /\ resp.body = create_error_response
    /\ resp.body.references = <<>>
    /\ "meta" \notin DOMAIN resp.body
    /\ "person" \notin DOMAIN loc

\* the order the stages of a request may follow each other in
StageOrder ==
    {<<"idle", "check">>, <<"check", "read">>, <<"check", "fetch">>,
     <<"read", "find">>, <<"read", "done">>, <<"fetch", "find">>,
     <<"fetch", "done">>, <<"find", "done">>, <<"find", "generate">>,
     <<"generate", "reconcile">>, <<"reconcile", "done">>, <<"done", "idle">>}

\* a step in which get_people_data raises: the fetch failed, or the entry
\* expired between the membership test and the read
StageRaises ==
    \/ pc = "fetch" /\ pc' # "fetch" /\ hist'.prev_failed
    \/ pc = "read" /\ pc' # "read" /\ ~CacheContains(cache, now)

\* C14: when the table fetch and the generation call return or fail, every
\* request ends, and it ends in exactly one of NOT_FOUND, RECONCILED and the
\* fixed error response; the stages follow the order cache fetch, resolution,
\* then NOT_FOUND or generation and reconciliation; a failure raised outside
\* generation gives the fixed error response with status 500, without
\* references, meta or exception text, and leaves the cache as it was, so
\* that the requests after it end as well.
C14_RequestTerminates ==
    /\ (pc = "check") ~> (pc = "done")
    /\ [](pc = "done" =>
            /\ OutcomeNotFound \/ OutcomeReconciled \/ OutcomeError
            /\ ~(OutcomeNotFound /\ OutcomeReconciled)
            /\ ~(OutcomeNotFound /\ OutcomeError)
            /\ ~(OutcomeReconciled /\ OutcomeError)
            /\ hist.fetches <= 1
            /\ OutcomeNotFound => (hist.finds = 1 /\ hist.gens = 0)
            /\ OutcomeReconciled => (hist.finds = 1 /\ hist.gens = 1)
            /\ OutcomeError => (hist.finds = 0 /\ hist.gens = 0))
    /\ [][ /\ pc' # pc => <<pc, pc'>> \in StageOrder
           /\ StageRaises =>
                  /\ pc' = "done"
                  /\ resp' = [kind |-> "error", status |-> 500,
                              body |-> create_error_response]
                  /\ cache' = cache
           /\ (pc' = "done" /\ pc # "done" /\ resp'.kind = "error") => StageRaises
         ]_vars

\* the entry expired under the read of a request after an earlier request
\* had fetched the table, and the request ended with the error response
C14_Witness ==
    /\ pc = "done"
    /\ OutcomeError
    /\ ~hist.prev_failed
    /\ hist.last_ok >= 0
    /\ cache.present

\* the person of the request was found by the phone match of find_person
FoundByPhone ==
    /\ Truthy(loc.user_phone)
    /\ find_by_phone(loc.people_data, loc.user_phone) = loc.person

\* C15: in a reconciled response meta.match names the lookup that resolved the
\* person: "phone" when the phone match found the person, "name" when the
\* name match did, also for a request whose phone matched no record; it is
\* never "none".
C15_MatchNamesTheMethod ==
    (pc = "done" /\ Resolved) =>
        resp.body.meta.match = IF FoundByPhone THEN "phone" ELSE "name"

====
